---- MODULE Spec2Model ----
(***************************************************************************)
(* Model of the type-directed binder of go-eth-abi (parser.go): Parse,     *)
(* parseStruct, parseSlice and parsePointer walk a target value and a tree *)
(* of decoded nodes in lockstep.  reflect's behaviour is modelled by what  *)
(* it does: a failed type assertion, an assignment of a value that is not  *)
(* assignable, a write through an unexported field and an index past the   *)
(* end of a slice all panic.                                               *)
(***************************************************************************)
EXTENDS Integers, Sequences, FiniteSets, TLC

VARIABLES vKind, shape, pre, target, nDecoded, decoded, pc, i, j, result, err

vars == <<vKind, shape, pre, target, nDecoded, decoded, pc, i, j, result, err>>

\* Largest number of fields of a top-level target struct explored.
MaxFields == 2

-----------------------------------------------------------------------------
(* Types (reflect.Type): k is Kind(), n is String(), e the element / field *)
(* types, x the exported flag of each struct field.                        *)

Ty(k, n, e, x) == [k |-> k, n |-> n, e |-> e, x |-> x]

TUint8 == Ty("uint8", "uint8", <<>>, <<>>)
TUint16 == Ty("uint16", "uint16", <<>>, <<>>)
TInt8 == Ty("int8", "int8", <<>>, <<>>)
TUint == Ty("uint", "uint", <<>>, <<>>)
TBool == Ty("bool", "bool", <<>>, <<>>)

PtrTo(T) == Ty("ptr", "*" \o T.n, <<T>>, <<>>)
SliceOf(T) == Ty("slice", "[]" \o T.n, <<T>>, <<>>)
StructOf(n, fields) == Ty("struct", n, fields, [p \in 1..Len(fields) |-> TRUE])

\* common.Address is [20]byte: an array, not a struct.
TAddress == Ty("array", "common.Address", <<TUint8>>, <<>>)
\* big.Int is struct { neg bool; abs nat }, both fields unexported.
TBigInt == Ty("struct", "big.Int", <<TBool, SliceOf(TUint)>>, <<FALSE, FALSE>>)
\* A user composite with one scalar field.
TInner == StructOf("main.Inner", <<TUint8>>)

IsIntKind(k) == k \in {"uint8", "uint16", "int8", "uint"}

-----------------------------------------------------------------------------
(* Values: t is the dynamic type's String(), v a number (an integer, an    *)
(* address, the identity of a *big.Int instance, 0 for nil), s the         *)
(* characters of a string and l the elements of a list, slice or struct or *)
(* the pointee of a set pointer.                                           *)

Val(t, v, s, l) == [t |-> t, v |-> v, s |-> s, l |-> l]

IntV(T, n) == Val(T.n, n, <<>>, <<>>)
StrV(s) == Val("string", 0, s, <<>>)
NilV == Val("nil", 0, <<>>, <<>>)
BigV(ref) == Val("*big.Int", ref, <<>>, <<>>)
BytesV(l) == Val("[]uint8", 0, <<>>, l)
ListV(l) == Val("[]interface {}", 0, <<>>, l)
AddrV(a) == Val("common.Address", a, <<>>, <<>>)
NilPtr(T) == Val(T.n, 0, <<>>, <<>>)
PtrV(T, inner) == Val(T.n, 0, <<>>, <<inner>>)

SliceV(T, elems) == Val(T.n, 0, <<>>, elems)
StructV(T, fields) == Val(T.n, 0, <<>>, fields)

\* The numeric value of each *big.Int instance; instances 1 and 2 are
\* distinct and numerically equal, as are 3 and 4.
BigHeap == <<7, 7, 9, 9>>

RECURSIVE Zero(_)
\* reflect.New(T).Elem(): the zero value of T.
Zero(T) ==
  CASE T.k = "struct" -> StructV(T, [p \in 1..Len(T.e) |-> Zero(T.e[p])])
    [] T.k = "array" -> AddrV(0)
    [] OTHER -> Val(T.n, 0, <<>>, <<>>)

-----------------------------------------------------------------------------
(* Conversions.                                                            *)

Width(k) == CASE k = "uint8" -> 8 [] k = "int8" -> 8 [] k = "uint16" -> 16 [] OTHER -> 64
IsSigned(k) == k = "int8"

\* reflect.Value.CanConvert between the modelled representations: any
\* integer kind converts to any integer kind, nothing else converts.
CanConvert(nt, T) == IsIntKind(nt) /\ IsIntKind(T.k)

\* reflect.Value.Convert between integer kinds: Go's integer conversion,
\* which keeps the low Width bits (two's complement), whatever the value.
Convert(node, T) ==
  LET m == 2 ^ Width(T.k)
      low == node.v % m
  IN  IntV(T, IF IsSigned(T.k) /\ 2 * low >= m THEN low - m ELSE low)

AddressLength == 20

HexDigits == <<"0", "1", "2", "3", "4", "5", "6", "7", "8", "9",
               "a", "b", "c", "d", "e", "f">>
UpperHexDigits == <<"0", "1", "2", "3", "4", "5", "6", "7", "8", "9",
                    "A", "B", "C", "D", "E", "F">>

\* encoding/hex fromHexChar: the digit's value, -1 for any other character.
fromHexChar(c) ==
  IF \E d \in 1..16 : HexDigits[d] = c
  THEN (CHOOSE d \in 1..16 : HexDigits[d] = c) - 1
  ELSE IF \E d \in 1..16 : UpperHexDigits[d] = c
  THEN (CHOOSE d \in 1..16 : UpperHexDigits[d] = c) - 1
  ELSE -1

RECURSIVE hexDecode(_)
\* hex.DecodeString with its error dropped (common.Hex2Bytes): the bytes of
\* the leading pairs of hex digits, stopping at the first bad character.
hexDecode(s) ==
  IF Len(s) < 2 \/ fromHexChar(s[1]) < 0 \/ fromHexChar(s[2]) < 0 THEN <<>>
  ELSE <<16 * fromHexChar(s[1]) + fromHexChar(s[2])>> \o hexDecode(SubSeq(s, 3, Len(s)))

RECURSIVE bytesToNumber(_)
bytesToNumber(b) ==
  IF b = <<>> THEN 0 ELSE 256 * bytesToNumber(SubSeq(b, 1, Len(b) - 1)) + b[Len(b)]

\* common.HexToAddress: drop a 0x prefix, pad an odd length with a leading
\* 0, decode, keep the last AddressLength bytes, left-padded with zeros.
HexToAddress(s) ==
  LET has0x == Len(s) >= 2 /\ s[1] = "0" /\ s[2] \in {"x", "X"}
      body == IF has0x THEN SubSeq(s, 3, Len(s)) ELSE s
      even == IF Len(body) % 2 = 1 THEN <<"0">> \o body ELSE body
      b == hexDecode(even)
      last == IF Len(b) > AddressLength
              THEN SubSeq(b, Len(b) - AddressLength + 1, Len(b)) ELSE b
  IN  AddrV(bytesToNumber(last))

-----------------------------------------------------------------------------
(* The binders as functions of (decoded nodes, target type, target value). *)
(* A result is the way the call ended (st: "ok" for a nil error, "err" for *)
(* a returned error of kind e, "panic" for a run-time panic) and the value *)
(* the target holds at that point, partial writes included.                *)

Res(st, e, val) == [st |-> st, e |-> e, val |-> val]

IsSpecialName(n) == n = "big.Int" \/ n = "common.Address"

\* strings.TrimPrefix(T.String(), "*"): only pointer types start with "*".
TrimStar(T) == IF T.k = "ptr" THEN T.e[1].n ELSE T.n

ListT == "[]interface {}"

\* reflect's assignability of a value of dynamic type nt to a location of
\* type T, for the modelled (non-interface) types: identical types only.
AssignableTo(nt, T) == nt = T.n

\* reflect.Append with the new element put first.
AppendToFront(val, x) == [val EXCEPT !.l = <<x>> \o @]

\* reflect.Append onto an empty slice instead of the target's content.
AppendToEmpty(val, x) == [val EXCEPT !.l = <<x>>]

\* rve.Set(reflect.Append(rve, x)): the slice val with x appended.
AppendTo(val, x) == [val EXCEPT !.l = Append(@, x)]

RECURSIVE Invoke(_)

\* A call of one of the binders (or of one of their loops from some index
\* on), and its evaluation: the binders are mutually recursive.
Call(fn, nodes, T, val, p, flagA, flagB) ==
  [fn |-> fn, nodes |-> nodes, T |-> T, val |-> val, p |-> p, a |-> flagA, b |-> flagB]

CallParseStruct(nodes, T, val) == Invoke(Call("parseStruct", nodes, T, val, 0, FALSE, FALSE))
CallStructLoop(nodes, T, val, p) == Invoke(Call("structLoop", nodes, T, val, p, FALSE, FALSE))
CallBindField(T, exported, val, node) ==
  Invoke(Call("bindField", <<node>>, T, val, 0, exported, FALSE))
CallParseSlice(nodes, T, val) == Invoke(Call("parseSlice", nodes, T, val, 0, FALSE, FALSE))
CallSliceLoop(nodes, T, val, q) == Invoke(Call("sliceLoop", nodes, T, val, q, FALSE, FALSE))
CallBindElem(T, val, node) == Invoke(Call("bindElem", <<node>>, T, val, 0, FALSE, FALSE))
CallParsePointer(nodes, T, val, addressable, readOnly) ==
  Invoke(Call("parsePointer", nodes, T, val, 0, addressable, readOnly))

\* The count check with < for #: too many nodes pass.
CountMismatchTooFew(n, T) == n < Len(T.e) /\ T.n # "big.Int" /\ T.n # "common.Address"

\* The count check of parseStruct: n nodes for the struct type T, the two
\* special leaves exempt by their type names.
CountMismatch(n, T) == n # Len(T.e) /\ T.n # "big.Int" /\ T.n # "common.Address"

\* parseStruct(decoded, &val) with val of type T (the pointer is never nil
\* in a nested call).
parseStruct(nodes, T, val) ==
  IF T.k # "struct" THEN Res("err", "InvalidTarget", val)
  ELSE IF CountMismatch(Len(nodes), T) THEN Res("err", "ShapeMismatch", val)
  ELSE CallStructLoop(nodes, T, val, 1)

\* The loop of parseStruct from field p on.
structLoop(nodes, T, val, p) ==
  IF p > Len(T.e) THEN Res("ok", "", val)
  ELSE IF p > Len(nodes) THEN Res("panic", "index out of range", val)
  ELSE LET r == CallBindField(T.e[p], T.x[p], val.l[p], nodes[p])
           val1 == [val EXCEPT !.l[p] = r.val]
       IN  IF r.st = "ok" THEN CallStructLoop(nodes, T, val1, p + 1)
           ELSE Res(r.st, r.e, val1)

\* A field that is a pointer to anything but the two special leaves: a
\* pointer to a struct is allocated when nil and bound by parseStruct, any
\* other pointer goes to parsePointer with the node in a singleton list.
bindPointerField(T, exported, val, node) ==
  IF T.e[1].k = "struct" THEN
    IF val.l = <<>> /\ ~exported THEN Res("panic", "reflect.Set", val)
    ELSE LET val1 == IF val.l = <<>> THEN PtrV(T, Zero(T.e[1])) ELSE val
         IN  IF node.t # ListT THEN Res("panic", "type assertion", val1)
             ELSE IF ~exported THEN Res("panic", "reflect.Interface", val1)
             ELSE LET r == CallParseStruct(node.l, T.e[1], val1.l[1])
                  IN  Res(r.st, r.e, PtrV(T, r.val))
  ELSE CallParsePointer(<<node>>, T, val, TRUE, ~exported)

\* A field that is a struct: decoded[i].([]any) and parseStruct.
bindStructField(T, exported, val, node) ==
  IF node.t # ListT THEN Res("panic", "type assertion", val)
  ELSE IF ~exported THEN Res("panic", "reflect.Interface", val)
  ELSE CallParseStruct(node.l, T, val)

\* A field that is a slice or an array, by the node's dynamic type.
bindSliceField(T, exported, val, node) ==
  IF node.t = "nil" THEN Res("panic", "nil dereference", val)
  ELSE IF node.t = "[]uint8" THEN
    IF exported /\ AssignableTo(node.t, T) THEN Res("ok", "", node)
    ELSE Res("panic", "reflect.Set", val)
  ELSE IF node.t = "string" THEN
    IF exported /\ TrimStar(T) = "common.Address"
    THEN Res("ok", "", HexToAddress(node.s))
    ELSE Res("panic", "reflect.Set", val)
  ELSE IF node.t # ListT THEN Res("panic", "type assertion", val)
  ELSE IF ~exported THEN Res("panic", "reflect.Interface", val)
  ELSE CallParseSlice(node.l, T, val)

\* Another *big.Int instance holding the same number.
CopyOf(ref) == CHOOSE c \in 1..Len(BigHeap) : c # ref /\ BigHeap[c] = BigHeap[ref]

\* The *big.Int field bound to a copy of the node's number.
bindBigIntCopy(T, exported, val, node) ==
  IF node.t # "*big.Int" THEN Res("err", "TypeMismatch", val)
  ELSE IF exported THEN Res("ok", "", BigV(CopyOf(node.v)))
  ELSE Res("panic", "reflect.Set", val)

\* A *big.Int field: the node must be a *big.Int and is stored as it is,
\* the same instance.
bindBigInt(T, exported, val, node) ==
  IF node.t # "*big.Int" THEN Res("err", "TypeMismatch", val)
  ELSE IF exported THEN Res("ok", "", node)
  ELSE Res("panic", "reflect.Set", val)

\* A *common.Address field: decoded[i].(string), parsed, behind a pointer.
bindAddressPointer(T, exported, val, node) ==
  IF node.t = "string" /\ exported
  THEN Res("ok", "", PtrV(T, HexToAddress(node.s)))
  ELSE Res("panic", "type assertion", val)

\* A field whose type name is common.Address and that is no array.
bindAddress(T, exported, val, node) ==
  IF node.t = "string" /\ exported THEN Res("ok", "", HexToAddress(node.s))
  ELSE Res("panic", "type assertion", val)

\* Any other field: the node's value, converted when its type differs from
\* the field's and reflect can convert it.
bindScalar(T, exported, val, node) ==
  IF node.t = "nil" THEN Res("panic", "reflect.Value.Type", val)
  ELSE IF node.t # T.n /\ ~CanConvert(node.t, T)
  THEN Res("err", "ConversionFailure", val)
  ELSE IF ~exported THEN Res("panic", "reflect.Set", val)
  ELSE IF node.t # T.n THEN Res("ok", "", Convert(node, T))
  ELSE Res("ok", "", node)

\* One iteration of parseStruct's loop: the field of type T, exported or
\* not, holding val, and its node.
bindField(T, exported, val, node) ==
  IF T.k = "ptr" /\ ~IsSpecialName(T.e[1].n) THEN bindPointerField(T, exported, val, node)
  ELSE IF T.k = "struct" THEN bindStructField(T, exported, val, node)
  ELSE IF T.k \in {"slice", "array"} THEN bindSliceField(T, exported, val, node)
  ELSE IF T.k = "ptr" THEN
    IF T.e[1].n = "big.Int" THEN bindBigInt(T, exported, val, node)
    ELSE IF T.e[1].n = "common.Address" THEN bindAddressPointer(T, exported, val, node)
    ELSE Res("err", "UnsupportedIndirection", val)
  ELSE IF TrimStar(T) = "common.Address" THEN bindAddress(T, exported, val, node)
  ELSE bindScalar(T, exported, val, node)

\* parseSlice(decoded, &val) with val of type T.
parseSlice(nodes, T, val) ==
  IF T.k # "slice" THEN Res("err", "InvalidTarget", val)
  ELSE CallSliceLoop(nodes, T, val, 1)

\* The loop of parseSlice from node q on.
sliceLoop(nodes, T, val, q) ==
  IF q > Len(nodes) THEN Res("ok", "", val)
  ELSE LET r == CallBindElem(T, val, nodes[q])
       IN  IF r.st = "ok" THEN CallSliceLoop(nodes, T, r.val, q + 1) ELSE r

\* The loop body of parseSlice with a scalar element converted as a scalar
\* struct field is.
bindElemConverting(T, val, node) ==
  LET E == T.e[1] IN
  IF E.k = "ptr" /\ ~IsSpecialName(E.e[1].n) THEN
    IF node.t # ListT THEN Res("panic", "type assertion", val)
    ELSE LET r == CallParsePointer(node.l, E, PtrV(E, Zero(E.e[1])), FALSE, FALSE)
         IN  IF r.st = "ok" THEN Res("ok", "", AppendTo(val, r.val))
             ELSE Res(r.st, r.e, val)
  ELSE IF E.k = "struct" THEN
    IF node.t # ListT THEN Res("panic", "type assertion", val)
    ELSE LET r == CallParseStruct(node.l, E, Zero(E))
         IN  IF r.st = "ok" THEN Res("ok", "", AppendTo(val, r.val))
             ELSE Res(r.st, r.e, val)
  ELSE IF E.k \in {"slice", "array"} THEN
    IF node.t # ListT THEN Res("panic", "type assertion", val)
    ELSE CallParseSlice(node.l, T, val)
  ELSE IF node.t # "nil" /\ AssignableTo(node.t, E)
  THEN Res("ok", "", AppendTo(val, node))
  ELSE IF CanConvert(node.t, E) THEN Res("ok", "", AppendTo(val, Convert(node, E)))
  ELSE Res("panic", "reflect.Append", val)

\* One iteration of parseSlice's loop: the slice val of type T and one node.
bindElem(T, val, node) ==
  LET E == T.e[1] IN
  IF E.k = "ptr" /\ ~IsSpecialName(E.e[1].n) THEN
    IF node.t # ListT THEN Res("panic", "type assertion", val)
    ELSE LET r == CallParsePointer(node.l, E, PtrV(E, Zero(E.e[1])), FALSE, FALSE)
         IN  IF r.st = "ok" THEN Res("ok", "", AppendTo(val, r.val))
             ELSE Res(r.st, r.e, val)
  ELSE IF E.k = "struct" THEN
    IF node.t # ListT THEN Res("panic", "type assertion", val)
    ELSE LET r == CallParseStruct(node.l, E, Zero(E))
         IN  IF r.st = "ok" THEN Res("ok", "", AppendTo(val, r.val))
             ELSE Res(r.st, r.e, val)
  ELSE IF E.k \in {"slice", "array"} THEN
    IF node.t # ListT THEN Res("panic", "type assertion", val)
    ELSE CallParseSlice(node.l, T, val)
  ELSE IF node.t # "nil" /\ AssignableTo(node.t, E)
  THEN Res("ok", "", AppendTo(val, node))
  ELSE Res("panic", "reflect.Append", val)

\* parsePointer(decoded, pointerVal): pointerVal of pointer type T holds
\* val, is addressable or not, and is read-only (reached through an
\* unexported field) or not.
parsePointer(nodes, T, val, addressable, readOnly) ==
  IF T.k # "ptr" THEN Res("err", "InvalidTarget", val)
  ELSE IF val.l = <<>> /\ (~addressable \/ readOnly) THEN Res("panic", "reflect.Set", val)
  ELSE LET E == T.e[1]
           val1 == IF val.l = <<>> THEN PtrV(T, Zero(E)) ELSE val
       IN  IF E.k = "struct" THEN
             IF readOnly THEN Res("panic", "reflect.Interface", val1)
             ELSE LET r == CallParseStruct(nodes, E, val1.l[1])
                  IN  Res(r.st, r.e, PtrV(T, r.val))
           ELSE IF E.k \in {"slice", "array"} THEN
             IF ~addressable \/ readOnly THEN Res("panic", "reflect.Addr", val1)
             ELSE CallParseSlice(nodes, T, val1)
           ELSE IF ~readOnly /\ AssignableTo(ListT, E)
           THEN Res("ok", "", PtrV(T, ListV(nodes)))
           ELSE Res("panic", "reflect.Set", val1)

Invoke(c) ==
  CASE c.fn = "parseStruct" -> parseStruct(c.nodes, c.T, c.val)
    [] c.fn = "structLoop" -> structLoop(c.nodes, c.T, c.val, c.p)
    [] c.fn = "bindField" -> bindField(c.T, c.a, c.val, c.nodes[1])
    [] c.fn = "parseSlice" -> parseSlice(c.nodes, c.T, c.val)
    [] c.fn = "sliceLoop" -> sliceLoop(c.nodes, c.T, c.val, c.p)
    [] c.fn = "bindElem" -> bindElem(c.T, c.val, c.nodes[1])
    [] c.fn = "parsePointer" -> parsePointer(c.nodes, c.T, c.val, c.a, c.b)

-----------------------------------------------------------------------------
(* The inputs explored.                                                    *)

Slot(T, val) == [T |-> T, pre |-> val]

\* Field types with the value the field holds before the call.
Slots ==
  { Slot(TUint8, IntV(TUint8, 0)),
    Slot(TUint8, IntV(TUint8, 9)),
    Slot(TUint16, IntV(TUint16, 0)),
    Slot(TInt8, IntV(TInt8, 0)),
    Slot(TAddress, AddrV(0)),
    Slot(TAddress, AddrV(5)),
    Slot(PtrTo(TBigInt), BigV(0)),
    Slot(PtrTo(TBigInt), BigV(3)),
    Slot(PtrTo(TAddress), NilPtr(PtrTo(TAddress))),
    Slot(PtrTo(TUint8), NilPtr(PtrTo(TUint8))),
    Slot(PtrTo(TUint8), PtrV(PtrTo(TUint8), IntV(TUint8, 9))),
    Slot(SliceOf(TUint16), Zero(SliceOf(TUint16))),
    Slot(SliceOf(TUint16), SliceV(SliceOf(TUint16), <<IntV(TUint16, 9)>>)),
    Slot(SliceOf(TUint8), Zero(SliceOf(TUint8))),
    Slot(SliceOf(PtrTo(TBigInt)), SliceV(SliceOf(PtrTo(TBigInt)), <<BigV(3)>>)),
    Slot(SliceOf(SliceOf(TUint16)), Zero(SliceOf(SliceOf(TUint16)))),
    Slot(SliceOf(SliceOf(TUint16)),
         SliceV(SliceOf(SliceOf(TUint16)),
                <<SliceV(SliceOf(TUint16), <<IntV(TUint16, 9)>>)>>)),
    Slot(TInner, Zero(TInner)),
    Slot(PtrTo(TInner), NilPtr(PtrTo(TInner))),
    Slot(PtrTo(TInner), PtrV(PtrTo(TInner), StructV(TInner, <<IntV(TUint8, 9)>>))),
    Slot(SliceOf(TInner), Zero(SliceOf(TInner))),
    Slot(SliceOf(TInner),
         SliceV(SliceOf(TInner), <<StructV(TInner, <<IntV(TUint8, 9)>>)>>)),
    Slot(SliceOf(PtrTo(TInner)), Zero(SliceOf(PtrTo(TInner)))),
    Slot(PtrTo(SliceOf(TUint16)), NilPtr(PtrTo(SliceOf(TUint16)))),
    Slot(TBigInt, Zero(TBigInt)) }

\* The decoded nodes a decoder may hand over at one index.
Nodes ==
  { IntV(TUint8, 5), IntV(TUint8, 200), IntV(TUint16, 7), IntV(TUint16, 300),
    StrV(<<"0", "x", "0", "1">>), StrV(<<"0", "x", "A", "b", "c">>),
    BigV(1), BigV(2), NilV,
    BytesV(<<IntV(TUint8, 1), IntV(TUint8, 2)>>),
    ListV(<<>>),
    ListV(<<IntV(TUint8, 5)>>),
    ListV(<<IntV(TUint16, 1), IntV(TUint16, 2)>>),
    ListV(<<IntV(TUint16, 1), IntV(TUint8, 5)>>),
    ListV(<<BigV(1), BigV(2)>>),
    ListV(<<ListV(<<>>)>>),
    ListV(<<ListV(<<IntV(TUint8, 5)>>), ListV(<<IntV(TUint16, 300)>>)>>),
    ListV(<<ListV(<<IntV(TUint16, 1), IntV(TUint16, 2)>>), ListV(<<IntV(TUint16, 3)>>)>>) }

\* The struct main.T with the given slots as its (exported) fields.
StructOfSlots(f) == StructOf("main.T", [p \in 1..Len(f) |-> f[p].T])
ValueOfSlots(f) == StructV(StructOfSlots(f), [p \in 1..Len(f) |-> f[p].pre])

SlotSeqs == UNION {[1..n -> Slots] : n \in 0..MaxFields}

-----------------------------------------------------------------------------
(* The state machine: one call Parse(decoded, v).  vKind tells what v is   *)
(* (a pointer, a nil pointer, a plain value), shape the type behind it,    *)
(* pre and target the value behind it before the call and now.  decoded    *)
(* holds the nodes read so far (decoded[p] is first read in iteration p of *)
(* the loop) and nDecoded is len(decoded).  pc is the position in the      *)
(* call: "start", "field" (at the top of parseStruct's loop, field i),     *)
(* "slice" (at the top of the loop of the parseSlice call made for field   *)
(* i, node j) or "done" with result and err.                               *)

Init ==
  /\ \/ \E f \in SlotSeqs :
          /\ vKind = "ptr"
          /\ shape = StructOfSlots(f)
          /\ pre = ValueOfSlots(f)
     \/ /\ vKind = "ptr"
        /\ shape \in {TBigInt, SliceOf(TUint16)}
        /\ pre = Zero(shape)
     \/ /\ vKind \in {"nilptr", "value"}
        /\ shape = TInner
        /\ pre = Zero(shape)
  /\ target = pre
  /\ nDecoded \in 0..(MaxFields + 1)
  /\ decoded = <<>>
  /\ pc = "start"
  /\ i = 0
  /\ j = 0
  /\ result = "none"
  /\ err = ""

Finish(st, e) ==
  /\ pc' = "done"
  /\ result' = st
  /\ err' = e

\* Go on with field p of the top-level struct, or return nil after the last.
Advance(p) ==
  /\ i' = p
  /\ j' = 0
  /\ IF p > Len(shape.e) THEN Finish("ok", "")
     ELSE pc' = "field" /\ UNCHANGED <<result, err>>

\* Parse and the checks of parseStruct before its loop.
Parse ==
  /\ pc = "start"
  /\ UNCHANGED <<vKind, shape, pre, target, nDecoded, decoded>>
  /\ IF vKind # "ptr" \/ shape.k # "struct"
     THEN Finish("err", "InvalidTarget") /\ UNCHANGED <<i, j>>
     ELSE IF CountMismatch(nDecoded, shape)
     THEN Finish("err", "ShapeMismatch") /\ UNCHANGED <<i, j>>
     ELSE Advance(1)

\* The target put back to its value from before the call when the
\* iteration returned an error.
FieldAfterRollback(r) == IF r.st = "err" THEN pre ELSE [target EXCEPT !.l[i] = r.val]

\* The target after an iteration on field i that ended with r: what the
\* iteration wrote stays, however it ended.
FieldAfter(r) == [target EXCEPT !.l[i] = r.val]

\* The call parseSlice(decoded[i].([]any), field.Addr().Interface()) of
\* parseStruct is reached for this field and node.
EntersSlice(T, exported, node) ==
  T.k \in {"slice", "array"} /\ node.t = ListT /\ exported

\* One iteration of the top-level parseStruct loop, up to the return of the
\* binder it calls; a parseSlice call is entered, its loop runs in steps.
BindField ==
  /\ pc = "field"
  /\ UNCHANGED <<vKind, shape, pre, nDecoded>>
  /\ IF i > nDecoded
     THEN Finish("panic", "index out of range") /\ UNCHANGED <<target, decoded, i, j>>
     ELSE \E node \in Nodes :
            /\ decoded' = Append(decoded, node)
            /\ IF EntersSlice(shape.e[i], shape.x[i], node)
               THEN /\ UNCHANGED target
                    /\ IF shape.e[i].k # "slice"
                       THEN Finish("err", "InvalidTarget") /\ UNCHANGED <<i, j>>
                       ELSE pc' = "slice" /\ j' = 1 /\ UNCHANGED <<i, result, err>>
               ELSE LET r == bindField(shape.e[i], shape.x[i], target.l[i], node)
                    IN  /\ target' = FieldAfter(r)
                        /\ IF r.st = "ok" THEN Advance(i + 1)
                           ELSE Finish(r.st, r.e) /\ UNCHANGED <<i, j>>

\* One iteration of the loop of the parseSlice call made for field i, or
\* its return once the nodes are used up.
ParseSliceStep ==
  /\ pc = "slice"
  /\ UNCHANGED <<vKind, shape, pre, nDecoded, decoded>>
  /\ IF j > Len(decoded[i].l)
     THEN UNCHANGED target /\ Advance(i + 1)
     ELSE LET r == bindElem(shape.e[i], target.l[i], decoded[i].l[j])
          IN  /\ target' = FieldAfter(r)
              /\ IF r.st = "ok"
                 THEN j' = j + 1 /\ UNCHANGED <<pc, i, result, err>>
                 ELSE Finish(r.st, r.e) /\ UNCHANGED <<i, j>>

Next == Parse \/ BindField \/ ParseSliceStep

Spec == Init /\ [][Next]_vars

-----------------------------------------------------------------------------
(* Properties.                                                             *)

NumField == Len(shape.e)

\* Parse was handed a non-nil pointer to a struct.
ValidTarget == vKind = "ptr" /\ shape.k = "struct"

\* The iteration on field p has ended (with any outcome).
FieldDone(p) == p <= Len(decoded) /\ ~(pc = "slice" /\ i = p)

\* The iteration on field p has ended with a nil error.
FieldOk(p) == p <= Len(decoded) /\ i > p

IsPrefix(a, b) == Len(a) <= Len(b) /\ SubSeq(b, 1, Len(a)) = a

\* C1: a count of decoded nodes that differs from the field count of a
\* composite that is not a special leaf makes Parse return ShapeMismatch,
\* with no field of the composite written.
C1_CountMismatchFailsUnwritten ==
  (pc # "start" /\ ValidTarget /\ ~IsSpecialName(shape.n) /\ nDecoded # NumField)
    => (pc = "done" /\ result = "err" /\ err = "ShapeMismatch" /\ target = pre)

C1_Witness ==
  /\ pc = "done" /\ result = "err" /\ err = "ShapeMismatch"
  /\ NumField = 2 /\ nDecoded = 3
  /\ target.l[1] # Zero(shape.e[1])

RECURSIVE ExactMatch(_, _)
\* The node has exactly the shape the type declares: a scalar of the same
\* representation, a string for an address, a list of such scalars for a
\* slice of scalars, a list of matching nodes for a nested composite.
ExactMatch(T, node) ==
  CASE IsIntKind(T.k) -> node.t = T.n
    [] T.n = "common.Address" -> node.t = "string"
    [] T.k = "slice" /\ IsIntKind(T.e[1].k)
         -> node.t = ListT /\ \A q \in 1..Len(node.l) : node.l[q].t = T.e[1].n
    [] T.k = "struct" /\ ~IsSpecialName(T.n)
         -> /\ node.t = ListT
            /\ Len(node.l) = Len(T.e)
            /\ \A q \in 1..Len(T.e) : ExactMatch(T.e[q], node.l[q])
    [] OTHER -> FALSE

RECURSIVE NodeValue(_, _)
\* The value of a matching node, as a value of type T.
NodeValue(T, node) ==
  CASE T.n = "common.Address" -> HexToAddress(node.s)
    [] T.k = "slice" -> SliceV(T, node.l)
    [] T.k = "struct" -> StructV(T, [q \in 1..Len(T.e) |-> NodeValue(T.e[q], node.l[q])])
    [] OTHER -> node

RECURSIVE BoundValue(_, _, _)
\* As NodeValue, but a slice holds what it held before, then the nodes.
BoundValue(T, before, node) ==
  CASE T.n = "common.Address" -> HexToAddress(node.s)
    [] T.k = "slice" -> SliceV(T, before.l \o node.l)
    [] T.k = "struct"
         -> StructV(T, [q \in 1..Len(T.e) |-> BoundValue(T.e[q], before.l[q], node.l[q])])
    [] OTHER -> node

AllMatch ==
  /\ pc = "done" /\ ValidTarget /\ ~IsSpecialName(shape.n) /\ nDecoded = NumField
  /\ \A p \in 1..Len(decoded) : ExactMatch(shape.e[p], decoded[p])

\* C2 as stated: with as many nodes as fields and every node of exactly its
\* field's shape, Parse succeeds and every field equals its node's value.
C2_FieldsEqualNodes ==
  AllMatch => /\ result = "ok"
              /\ Len(decoded) = NumField
              /\ \A p \in 1..NumField : target.l[p] = NodeValue(shape.e[p], decoded[p])

\* C2 as amended: with as many nodes as fields and every node of exactly
\* its field's shape, Parse succeeds, every scalar and address field equals
\* its node's value, and every slice field holds the elements it held
\* before the call followed by its node list's values, in node order.
C2_FieldsBoundFromNodes ==
  AllMatch => /\ result = "ok"
              /\ Len(decoded) = NumField
              /\ \A p \in 1..NumField :
                   target.l[p] = BoundValue(shape.e[p], pre.l[p], decoded[p])

C2_Witness ==
  /\ AllMatch /\ result = "ok" /\ NumField = 2
  /\ shape.e[1] = TAddress /\ target.l[1].v = 2748
  /\ shape.e[2] = SliceOf(TUint16)
  /\ pre.l[2].l # <<>> /\ Len(target.l[2].l) = 3

\* The node does not have the structure the type needs: a number where a
\* struct, a pointer to a struct or a slice needs a list, anything but a
\* string for an address, a list for a scalar.
StructuralMismatch(T, node) ==
  \/ /\ \/ T.k = "struct" /\ ~IsSpecialName(T.n)
        \/ T.k = "ptr" /\ T.e[1].k = "struct" /\ ~IsSpecialName(T.e[1].n)
        \/ T.k = "slice"
     /\ IsIntKind(node.t)
  \/ T.n = "common.Address" /\ node.t # "string"
  \/ IsIntKind(T.k) /\ node.t = ListT

\* C3 as stated: a node that does not match the structure of the field it
\* is bound to ends Parse with a returned error, neither a panic nor a
\* success.
C3_MismatchIsReturnedError ==
  (pc = "done" /\ ValidTarget
     /\ \E p \in 1..Len(decoded) : StructuralMismatch(shape.e[p], decoded[p]))
    => result = "err"

\* C4: a failing field ends the call at once: an error is only ever the
\* result of a finished call, no step follows the end of the call, no step
\* changes a field before the current one (the fields bound earlier keep
\* what was bound, the failing step included), and the fields after the
\* current one hold their values from before the call.
C4_FailFastNoRollback ==
  /\ [](result = "err" => pc = "done")
  /\ [](ValidTarget => \A p \in 1..NumField : p > i => target.l[p] = pre.l[p])
  /\ [][/\ pc # "done"
        /\ ValidTarget => \A p \in 1..NumField : p < i => target'.l[p] = target.l[p]
        /\ result' = "err" => i' = i]_vars

C4_Witness ==
  /\ pc = "done" /\ result = "err" /\ ValidTarget
  /\ NumField = 2 /\ i = 2
  /\ target.l[1] # pre.l[1]
  /\ target.l[2] = pre.l[2] /\ pre.l[2] # Zero(shape.e[2])

\* parseSlice appends to a slice of this type (its elements are scalars,
\* special leaves behind a pointer, or structs).
ElementsAppended(T) ==
  /\ T.k = "slice"
  /\ T.e[1].k \notin {"slice", "array"}
  /\ ~(T.e[1].k = "ptr" /\ ~IsSpecialName(T.e[1].e[1].n))

\* C5: every step of a parseSlice call on a slice of scalars or structs
\* keeps the slice's content as a prefix of its new content; before node j
\* the slice holds j - 1 elements more than before the call, and after a
\* successful call one more per node; scalar nodes are the new elements, in
\* node order.
C5_SliceGrowsByAppending ==
  /\ [][(pc = "slice" /\ ElementsAppended(shape.e[i]))
          => IsPrefix(target.l[i].l, target'.l[i].l)]_vars
  /\ [](ValidTarget =>
         \A p \in 1..Len(decoded) :
           (EntersSlice(shape.e[p], shape.x[p], decoded[p]) /\ ElementsAppended(shape.e[p]))
             => LET n == IF pc = "slice" /\ i = p THEN j - 1
                         ELSE IF FieldOk(p) THEN Len(decoded[p].l)
                         ELSE Len(target.l[p].l) - Len(pre.l[p].l)
                    old == Len(pre.l[p].l)
                IN  /\ Len(target.l[p].l) = old + n
                    /\ n <= Len(decoded[p].l)
                    /\ IsPrefix(pre.l[p].l, target.l[p].l)
                    /\ shape.e[p].e[1].k # "struct"
                         => SubSeq(target.l[p].l, old + 1, old + n)
                              = SubSeq(decoded[p].l, 1, n))

C5_Witness ==
  /\ ValidTarget /\ FieldOk(1)
  /\ shape.e[1] = SliceOf(TInner)
  /\ Len(pre.l[1].l) = 1 /\ Len(decoded[1].l) = 2
  /\ Len(target.l[1].l) = 3 /\ IsPrefix(pre.l[1].l, target.l[1].l)

\* C6 as stated: a pointer field to a scalar, given a node of that scalar's
\* representation, is bound with success: it is set and points to the node's
\* value.
C6_IndirectScalarBound ==
  ValidTarget =>
    \A p \in 1..Len(decoded) :
      (shape.e[p].k = "ptr" /\ IsIntKind(shape.e[p].e[1].k)
         /\ decoded[p].t = shape.e[p].e[1].n)
        => FieldOk(p) /\ target.l[p].l = <<decoded[p]>>

\* The first node of the list that is an integer of another representation
\* than T's, 0 when there is none.
FirstConvertible(T, nodes) ==
  LET qs == {q \in 1..Len(nodes) : IsIntKind(nodes[q].t) /\ nodes[q].t # T.n}
  IN  IF qs = {} THEN 0 ELSE CHOOSE q \in qs : \A r \in qs : q <= r

\* C7: an integer node of another representation than the declared one is
\* converted and stored by a scalar field; as an element of a slice of that
\* representation it is never stored (the elements before it are, the call
\* panics at it), and behind a pointer to that representation it is never
\* stored either (the pointee stays what it was, zero when just allocated).
C7_ConversionOnlyInFields ==
  ValidTarget =>
    \A p \in 1..Len(decoded) :
      LET T == shape.e[p]
          node == decoded[p]
      IN  /\ (IsIntKind(T.k) /\ IsIntKind(node.t) /\ node.t # T.n)
               => FieldOk(p) /\ target.l[p] = Convert(node, T)
          /\ (T.k = "slice" /\ IsIntKind(T.e[1].k) /\ node.t = ListT
                /\ FirstConvertible(T.e[1], node.l) > 0)
               => /\ ~FieldOk(p)
                  /\ Len(target.l[p].l) < Len(pre.l[p].l) + FirstConvertible(T.e[1], node.l)
                  /\ pc = "done" => result = "panic"
          /\ (T.k = "ptr" /\ IsIntKind(T.e[1].k) /\ IsIntKind(node.t) /\ node.t # T.e[1].n)
               => /\ ~FieldOk(p)
                  /\ result = "panic"
                  /\ target.l[p].l = IF pre.l[p].l = <<>> THEN <<Zero(T.e[1])>>
                                     ELSE pre.l[p].l

C7_Witness ==
  /\ pc = "done" /\ result = "panic" /\ ValidTarget /\ NumField = 2 /\ i = 2
  /\ shape.e[1] = TUint8 /\ decoded[1] = IntV(TUint16, 300) /\ target.l[1].v = 44
  /\ shape.e[2] = SliceOf(TUint16) /\ FirstConvertible(TUint16, decoded[2].l) = 2
  /\ Len(target.l[2].l) = Len(pre.l[2].l) + 1

\* The values the integer kind k can represent.
Representable(n, k) ==
  IF IsSigned(k) THEN -(2 ^ (Width(k) - 1)) <= n /\ n < 2 ^ (Width(k) - 1)
                 ELSE 0 <= n /\ n < 2 ^ Width(k)

\* C8 as stated: an integer node of another representation than its scalar
\* field's is stored with its value unchanged when the field's
\* representation can hold it, and otherwise Parse fails with
\* ConversionFailure and the field is not written.
C8_ConversionLosslessOrRefused ==
  ValidTarget =>
    \A p \in 1..Len(decoded) :
      (IsIntKind(shape.e[p].k) /\ IsIntKind(decoded[p].t) /\ decoded[p].t # shape.e[p].n)
        => IF Representable(decoded[p].v, shape.e[p].k)
           THEN FieldOk(p) /\ target.l[p].v = decoded[p].v
           ELSE /\ pc = "done" /\ result = "err" /\ err = "ConversionFailure"
                /\ target.l[p] = pre.l[p]

\* C9: a *big.Int field given a *big.Int node refers to the node's very
\* instance afterwards (so to an equal number); given any other node, Parse
\* fails with TypeMismatch at that field and the field is unchanged.
C9_BigIntByReference ==
  ValidTarget =>
    \A p \in 1..Len(decoded) :
      shape.e[p] = PtrTo(TBigInt)
        => IF decoded[p].t = "*big.Int"
           THEN /\ FieldOk(p)
                /\ target.l[p].v = decoded[p].v
                /\ BigHeap[target.l[p].v] = BigHeap[decoded[p].v]
           ELSE /\ pc = "done" /\ result = "err" /\ err = "TypeMismatch" /\ i = p
                /\ target.l[p] = pre.l[p]

C9_Witness ==
  /\ ValidTarget /\ NumField = 2 /\ FieldOk(1) /\ pc = "done" /\ result = "err" /\ i = 2
  /\ shape.e[1] = PtrTo(TBigInt) /\ pre.l[1].v = 3 /\ target.l[1].v = 1
  /\ shape.e[2] = PtrTo(TBigInt) /\ decoded[2].t = "string" /\ target.l[2].v = 3

\* A list of lists of integers.
TwoLevel(node) ==
  /\ node.t = ListT
  /\ \A q \in 1..Len(node.l) :
       /\ node.l[q].t = ListT
       /\ \A r \in 1..Len(node.l[q].l) : IsIntKind(node.l[q].l[r].t)

RECURSIVE Leaves(_)
\* The leaves of a list of lists, in node order.
Leaves(lists) ==
  IF lists = <<>> THEN <<>> ELSE Head(lists).l \o Leaves(Tail(lists))

\* C10 as stated: a slice-of-slices field given a list of lists of scalars
\* is bound with success, the leaves of all inner lists appended to the
\* outer slice in node order.
C10_NestedListsFlattened ==
  ValidTarget =>
    \A p \in 1..Len(decoded) :
      (shape.e[p] = SliceOf(SliceOf(TUint16)) /\ TwoLevel(decoded[p]) /\ FieldDone(p))
        => FieldOk(p) /\ target.l[p].l = pre.l[p].l \o Leaves(decoded[p].l)

====
